---- MODULE Spec2Model ----
(***************************************************************************)
(* Model of deploy_helper.py: credential lookup, the SSH/SFTP session,     *)
(* the selective recursive upload (should_exclude, upload_directory) and   *)
(* the two remote commands run by main.                                    *)
(*                                                                         *)
(* Python strings are TLA+ strings (TLC evaluates Len, \o, SubSeq, Head    *)
(* and Tail on them), so paths are built, split and compared as the code   *)
(* does it.                                                                *)
(***************************************************************************)
EXTENDS Integers, Sequences, FiniteSets, TLC

VARIABLES
    os_sep,      \* os.sep of the platform the script runs on
    argv,        \* sys.argv[1:] (a sequence of strings)
    environ,     \* os.environ restricted to SSH_PASSWORD: <<>> or <<value>>
    fs,          \* the local tree under project_path: a set of nodes
    pc,          \* position of main()
    password,    \* main's local variable
    stack,       \* active upload_directory calls, innermost last
    ops,         \* every library call and skip report made so far, in order
    client,      \* the SSHClient: "none" | "open" | "closed"
    sftp,        \* the SFTPClient: "none" | "open" | "closed"
    exit_code,   \* the process exit status (meaningful when pc = "exited")
    ex_segs,     \* a direct call of should_exclude: the segments of its path
    ex_path,     \* its path argument
    ex_out       \* its result: "none" before the call, else "True" | "False"

vars == <<os_sep, argv, environ, fs, pc, password, stack, ops, client, sftp,
          exit_code, ex_segs, ex_path, ex_out>>

(***************************************************************************)
(* Bounds of the model.                                                    *)
(***************************************************************************)
MaxNodes == 3      \* entries under the local root, upload_directory alone
MaxNodesMain == 2  \* entries under the local root, whole runs of main
MaxSegs == 3       \* segments of a path handed to should_exclude directly

(***************************************************************************)
(* Program constants.                                                      *)
(***************************************************************************)
SERVER_PATH == "/home/missola/gt7-saas"

EXCLUDE_PATTERNS ==
    << "node_modules", ".git", ".next", "__pycache__", "*.pyc", ".env.local",
       "deploy_helper.py" >>

project_path == "C:\\Users\\missola\\CODE\\GT7\\GT7_SaaS"

mkdir_cmd == "mkdir -p " \o SERVER_PATH

docker_cmd ==
    "cd " \o SERVER_PATH \o
    " && docker compose -f docker-compose.prod.yml up -d --build --remove-orphans"

status_cmd == "docker ps --format 'table {{.Names}}\t{{.Status}}\t{{.Ports}}'"

(***************************************************************************)
(* String operations of the Python runtime used by the code.               *)
(***************************************************************************)
StartsWith(s, pre) ==
    /\ Len(pre) <= Len(s)
    /\ SubSeq(s, 1, Len(pre)) = pre

EndsWith(s, suf) ==
    /\ Len(suf) <= Len(s)
    /\ SubSeq(s, Len(s) - Len(suf) + 1, Len(s)) = suf

\* str.split(sep) for a one-character separator
RECURSIVE Split(_, _)
Split(s, sep) ==
    IF s = "" THEN << "" >>
    ELSE LET h == SubSeq(s, 1, 1)
             rest == Split(SubSeq(s, 2, Len(s)), sep)
         IN  IF h = sep THEN << "" >> \o rest
             ELSE << h \o Head(rest) >> \o Tail(rest)

\* sep.join(segs)
RECURSIVE Join(_, _)
Join(segs, sep) ==
    IF segs = << >> THEN ""
    ELSE IF Len(segs) = 1 THEN segs[1]
    ELSE segs[1] \o sep \o Join(Tail(segs), sep)

Contains(s, ch) == \E i \in 1..Len(s) : SubSeq(s, i, i) = ch

\* os.path.relpath(path, base) for a path at or below base
Relpath(path, base, sep) ==
    IF path = base THEN "."
    ELSE IF StartsWith(path, base \o sep)
         THEN SubSeq(path, Len(base) + 2, Len(path))
         ELSE path

(***************************************************************************)
(* should_exclude                                                          *)
(***************************************************************************)
InList(x, seq) == \E i \in 1..Len(seq) : seq[i] = x

\* the for loop of should_exclude from pattern number i on; parts is
\* rel_path.split(os.sep), which has the same value at every iteration
RECURSIVE ExcludeFrom(_, _, _)
ExcludeFrom(i, rel_path, parts) ==
    IF i > Len(EXCLUDE_PATTERNS) THEN FALSE
    ELSE LET pattern == EXCLUDE_PATTERNS[i]
         IN  IF InList(pattern, parts) THEN TRUE
             ELSE IF /\ StartsWith(pattern, "*")
                     /\ EndsWith(rel_path, SubSeq(pattern, 2, Len(pattern)))
                  THEN TRUE
                  ELSE ExcludeFrom(i + 1, rel_path, parts)

should_exclude(path, base_path, sep) ==
    LET rel_path == Relpath(path, base_path, sep)
    IN  ExcludeFrom(1, rel_path, Split(rel_path, sep))

PyBool(b) == IF b THEN "True" ELSE "False"

(***************************************************************************)
(* The local file system: entry names and trees.                           *)
(***************************************************************************)
Names == { "a", "b", ".git", "c.pyc", "*.pyc" }   \* for direct calls
WalkNames == { "a", "b", ".git", "c.pyc" }         \* entries of the local tree
Separators == { "/", "\\" }

\* names the platform allows for a directory entry
LegalName(name, sep) ==
    /\ ~ Contains(name, sep)
    /\ sep = "\\" => (~ Contains(name, "/") /\ ~ Contains(name, "*"))

LegalNames(names, sep) == { n \in names : LegalName(n, sep) }

\* A node is an entry below the root: its names from the root down, and
\* whether it is a directory.
Parent(segs) == SubSeq(segs, 1, Len(segs) - 1)

Extensions(t, sep) ==
    { [segs |-> p \o << name >>, dir |-> d] :
        p \in { << >> } \cup { n.segs : n \in { m \in t : m.dir } },
        name \in LegalNames(WalkNames, sep), d \in BOOLEAN }

Fresh(t, sep) ==
    { n \in Extensions(t, sep) : \A m \in t : m.segs # n.segs }

RECURSIVE TreesOfSize(_, _)
TreesOfSize(k, sep) ==
    IF k = 0 THEN { {} }
    ELSE UNION { { t \cup { n } : n \in Fresh(t, sep) } :
                 t \in TreesOfSize(k - 1, sep) }

Trees(sep, max) == UNION { TreesOfSize(k, sep) : k \in 0..max }

\* str(Path) of a node of the tree
LocalStr(segs, sep) == Join(<< project_path >> \o segs, sep)

\* Path(local_path).iterdir(): the names of the entries of that directory
ListDir(local_path) ==
    { n.segs[Len(n.segs)] :
        n \in { m \in fs : LocalStr(Parent(m.segs), os_sep) = local_path } }

\* Path.is_dir() of the entry whose str() is local_item
IsDir(local_item) ==
    \E n \in fs : LocalStr(n.segs, os_sep) = local_item /\ n.dir

(***************************************************************************)
(* Direct calls of should_exclude on bounded paths.                        *)
(***************************************************************************)
SegLists(sep) ==
    UNION { [1..k -> LegalNames(Names, sep)] : k \in 1..MaxSegs }

InitExclude ==
    /\ os_sep \in Separators
    /\ argv = << "deploy_helper.py" >>
    /\ environ = << >>
    /\ fs = {}
    /\ pc = "exclude_call"
    /\ password = ""
    /\ stack = << >>
    /\ ops = << >>
    /\ client = "none"
    /\ sftp = "none"
    /\ exit_code = 0
    /\ ex_segs \in SegLists(os_sep)
    /\ ex_path = LocalStr(ex_segs, os_sep)
    /\ ex_out = "none"

CallShouldExclude ==
    /\ pc = "exclude_call"
    /\ ex_out' = PyBool(should_exclude(ex_path, project_path, os_sep))
    /\ pc' = "exclude_done"
    /\ UNCHANGED <<os_sep, argv, environ, fs, password, stack, ops, client,
                   sftp, exit_code, ex_segs, ex_path>>

NextExclude == CallShouldExclude

SpecExclude == InitExclude /\ [][NextExclude]_vars

(***************************************************************************)
(* main(), create_ssh_client, exec_command and upload_directory.           *)
(***************************************************************************)
ArgvChoices ==
    { << "deploy_helper.py" >>,
      << "deploy_helper.py", "" >>,
      << "deploy_helper.py", "secret" >> }

EnvironChoices == { << >>, << "secret" >> }

\* outcomes of the library calls
ConnectResults == { "ok", "AuthenticationException", "SSHException", "Exception" }
OpenSftpResults == { "ok", "SSHException", "Exception" }
ExecResults == { "0", "1", "SSHException" }      \* exit status, or a fault
StatResults == { "ok", "FileNotFoundError", "IOError" }
MkdirResults == { "ok", "IOError" }
PutResults == { "ok", "IOError" }

Op(op, arg, src, res) == [op |-> op, arg |-> arg, src |-> src, res |-> res]

Frame(local_path, remote_path, base_path, phase, todo) ==
    [local_path |-> local_path, remote_path |-> remote_path,
     base_path |-> base_path, phase |-> phase, todo |-> todo]

\* faulty variant: a built-in password stands in for a missing credential
get_password_default(args, env) ==
    IF Len(args) > 1 THEN args[2]
    ELSE IF env # << >> THEN env[1] ELSE "changeme"

get_password(args, env) ==
    IF Len(args) > 1 THEN args[2]
    ELSE IF env # << >> THEN env[1] ELSE ""

Init ==
    /\ os_sep \in Separators
    /\ argv \in ArgvChoices
    /\ environ \in EnvironChoices
    /\ fs \in Trees(os_sep, MaxNodesMain)
    /\ pc = "start"
    /\ password = ""
    /\ stack = << >>
    /\ ops = << >>
    /\ client = "none"
    /\ sftp = "none"
    /\ exit_code = 0
    /\ ex_segs = << >>
    /\ ex_path = ""
    /\ ex_out = "none"

\* sys.exit(code): the frames are unwound and the process ends
Exit(code) ==
    /\ pc' = "exited"
    /\ exit_code' = code
    /\ stack' = << >>

\* lines 99-102
GetPassword ==
    /\ pc = "start"
    /\ password' = get_password(argv, environ)
    /\ IF password' = ""
       THEN Exit(1)
       ELSE pc' = "connect" /\ UNCHANGED <<exit_code, stack>>
    /\ UNCHANGED <<os_sep, argv, environ, fs, ops, client, sftp,
                   ex_segs, ex_path, ex_out>>

\* line 110, and the except clauses of lines 156-164
Connect ==
    /\ pc = "connect"
    /\ \E r \in ConnectResults :
          /\ ops' = Append(ops, Op("connect", password, "", r))
          /\ IF r = "ok"
             THEN /\ client' = "open"
                  /\ pc' = "open_sftp"
                  /\ UNCHANGED <<exit_code, stack>>
             ELSE /\ Exit(1)
                  /\ UNCHANGED client
    /\ UNCHANGED <<os_sep, argv, environ, fs, password, sftp,
                   ex_segs, ex_path, ex_out>>

\* line 114
OpenSftp ==
    /\ pc = "open_sftp"
    /\ \E r \in OpenSftpResults :
          /\ ops' = Append(ops, Op("open_sftp", "", "", r))
          /\ IF r = "ok"
             THEN /\ sftp' = "open"
                  /\ pc' = "mkdir_base"
                  /\ UNCHANGED <<exit_code, stack>>
             ELSE /\ Exit(1)
                  /\ UNCHANGED sftp
    /\ UNCHANGED <<os_sep, argv, environ, fs, password, client,
                   ex_segs, ex_path, ex_out>>

\* faulty variant: a non-zero exit status is raised as a fault
ExecCommand_RaisesOnNonZero(at, command, next) ==
    /\ pc = at
    /\ \E r \in ExecResults :
          /\ ops' = Append(ops, Op("exec_command", command, "", r))
          /\ IF r # "0"
             THEN Exit(1)
             ELSE pc' = next /\ UNCHANGED <<exit_code, stack>>
    /\ UNCHANGED <<os_sep, argv, environ, fs, password, client, sftp,
                   ex_segs, ex_path, ex_out>>

\* exec_command(client, command) called at position `at`, continuing at
\* `next`: the exit status is returned, a fault reaches main's handlers
ExecCommand(at, command, next) ==
    /\ pc = at
    /\ \E r \in ExecResults :
          /\ ops' = Append(ops, Op("exec_command", command, "", r))
          /\ IF r = "SSHException"
             THEN Exit(1)
             ELSE pc' = next /\ UNCHANGED <<exit_code, stack>>
    /\ UNCHANGED <<os_sep, argv, environ, fs, password, client, sftp,
                   ex_segs, ex_path, ex_out>>

\* line 118
MkdirBase == ExecCommand("mkdir_base", mkdir_cmd, "upload")

\* line 122: upload_directory(sftp, project_path, SERVER_PATH), lines 69-72
CallUpload ==
    /\ pc = "upload"
    /\ stack' = << Frame(project_path, SERVER_PATH, project_path, "stat", {}) >>
    /\ pc' = "walk"
    /\ UNCHANGED <<os_sep, argv, environ, fs, password, ops, client, sftp,
                   exit_code, ex_segs, ex_path, ex_out>>

Top == stack[Len(stack)]

SetTop(f) == [stack EXCEPT ![Len(stack)] = f]

\* faulty variant: the directory is created whatever the probe answered
Stat_AlwaysMkdir ==
    /\ pc = "walk"
    /\ Top.phase = "stat"
    /\ \E r \in StatResults :
          /\ ops' = Append(ops, Op("stat", Top.remote_path, "", r))
          /\ IF r = "IOError"
             THEN Exit(1)
             ELSE /\ stack' = SetTop([Top EXCEPT !.phase = "mkdir"])
                  /\ UNCHANGED <<pc, exit_code>>
    /\ UNCHANGED <<os_sep, argv, environ, fs, password, client, sftp,
                   ex_segs, ex_path, ex_out>>

\* faulty variant: every fault of the probe is taken for "not found"
Stat_CatchesAll ==
    /\ pc = "walk"
    /\ Top.phase = "stat"
    /\ \E r \in StatResults :
          /\ ops' = Append(ops, Op("stat", Top.remote_path, "", r))
          /\ stack' = SetTop([Top EXCEPT !.phase =
                                 IF r = "ok" THEN "list" ELSE "mkdir"])
    /\ UNCHANGED <<os_sep, argv, environ, fs, password, pc, client, sftp,
                   exit_code, ex_segs, ex_path, ex_out>>

\* lines 75-77: the existence probe of the current remote directory
Stat ==
    /\ pc = "walk"
    /\ Top.phase = "stat"
    /\ \E r \in StatResults :
          /\ ops' = Append(ops, Op("stat", Top.remote_path, "", r))
          /\ IF r = "IOError"
             THEN Exit(1)
             ELSE /\ stack' = SetTop([Top EXCEPT !.phase =
                                        IF r = "ok" THEN "list" ELSE "mkdir"])
                  /\ UNCHANGED <<pc, exit_code>>
    /\ UNCHANGED <<os_sep, argv, environ, fs, password, client, sftp,
                   ex_segs, ex_path, ex_out>>

\* lines 78-79
Mkdir ==
    /\ pc = "walk"
    /\ Top.phase = "mkdir"
    /\ \E r \in MkdirResults :
          /\ ops' = Append(ops, Op("mkdir", Top.remote_path, "", r))
          /\ IF r = "ok"
             THEN /\ stack' = SetTop([Top EXCEPT !.phase = "list"])
                  /\ UNCHANGED <<pc, exit_code>>
             ELSE Exit(1)
    /\ UNCHANGED <<os_sep, argv, environ, fs, password, client, sftp,
                   ex_segs, ex_path, ex_out>>

\* line 81: local_path.iterdir()
Iterdir ==
    /\ pc = "walk"
    /\ Top.phase = "list"
    /\ ops' = Append(ops, Op("iterdir", Top.local_path, "", "ok"))
    /\ stack' = SetTop([Top EXCEPT !.phase = "iter",
                                   !.todo = ListDir(Top.local_path)])
    /\ UNCHANGED <<os_sep, argv, environ, fs, password, pc, client, sftp,
                   exit_code, ex_segs, ex_path, ex_out>>

\* str(item) for an entry of the current directory
ItemStr(name) == Top.local_path \o os_sep \o name

\* faulty variant: os.path.join(remote_path, item.name)
RemoteItem_OsJoin(remote_path, name) == remote_path \o os_sep \o name

\* line 87
RemoteItem(remote_path, name) == remote_path \o "/" \o name

\* line 82, for an entry the iteration yields
ItemExcluded(name) == should_exclude(ItemStr(name), Top.base_path, os_sep)

\* faulty variant: the continue of line 84 is missing
Skip_FallsThrough ==
    /\ pc = "walk"
    /\ Top.phase = "iter"
    /\ \E name \in Top.todo :
          /\ ItemExcluded(name)
          /\ IF IsDir(ItemStr(name))
             THEN /\ ops' = Append(ops, Op("skip", name, ItemStr(name), "ok"))
                  /\ stack' = Append(SetTop([Top EXCEPT !.todo = @ \ { name }]),
                                     Frame(ItemStr(name),
                                           RemoteItem(Top.remote_path, name),
                                           Top.base_path, "stat", {}))
             ELSE /\ ops' = ops \o
                        << Op("skip", name, ItemStr(name), "ok"),
                           Op("put", RemoteItem(Top.remote_path, name),
                              ItemStr(name), "ok") >>
                  /\ stack' = SetTop([Top EXCEPT !.todo = @ \ { name }])
    /\ UNCHANGED <<os_sep, argv, environ, fs, password, pc, client,
                   sftp, exit_code, ex_segs, ex_path, ex_out>>

\* faulty variant: break in place of the continue of line 84
Skip_Breaks ==
    /\ pc = "walk"
    /\ Top.phase = "iter"
    /\ \E name \in Top.todo :
          /\ ItemExcluded(name)
          /\ ops' = Append(ops, Op("skip", name, ItemStr(name), "ok"))
          /\ stack' = SetTop([Top EXCEPT !.todo = {}])
    /\ UNCHANGED <<os_sep, argv, environ, fs, password, pc, client,
                   sftp, exit_code, ex_segs, ex_path, ex_out>>

\* lines 82-84: the entry is reported as skipped and the loop goes on
Skip ==
    /\ pc = "walk"
    /\ Top.phase = "iter"
    /\ \E name \in Top.todo :
          /\ ItemExcluded(name)
          /\ ops' = Append(ops, Op("skip", name, ItemStr(name), "ok"))
          /\ stack' = SetTop([Top EXCEPT !.todo = @ \ { name }])
    /\ UNCHANGED <<os_sep, argv, environ, fs, password, pc, client,
                   sftp, exit_code, ex_segs, ex_path, ex_out>>

\* lines 86-90
Descend ==
    /\ pc = "walk"
    /\ Top.phase = "iter"
    /\ \E name \in Top.todo :
          /\ ~ ItemExcluded(name)
          /\ IsDir(ItemStr(name))
          /\ stack' = Append(SetTop([Top EXCEPT !.todo = @ \ { name }]),
                             Frame(ItemStr(name),
                                   RemoteItem(Top.remote_path, name),
                                   Top.base_path, "stat", {}))
    /\ UNCHANGED <<os_sep, argv, environ, fs, password, pc, ops, client,
                   sftp, exit_code, ex_segs, ex_path, ex_out>>

\* faulty variant: no try/except around the put of line 94
Put_FaultAborts ==
    /\ pc = "walk"
    /\ Top.phase = "iter"
    /\ \E name \in Top.todo :
          /\ ~ ItemExcluded(name)
          /\ ~ IsDir(ItemStr(name))
          /\ \E r \in PutResults :
                /\ ops' = Append(ops, Op("put", RemoteItem(Top.remote_path, name),
                                         ItemStr(name), r))
                /\ IF r = "ok"
                   THEN /\ stack' = SetTop([Top EXCEPT !.todo = @ \ { name }])
                        /\ UNCHANGED <<pc, exit_code>>
                   ELSE Exit(1)
    /\ UNCHANGED <<os_sep, argv, environ, fs, password, client, sftp,
                   ex_segs, ex_path, ex_out>>

\* lines 91-96: a fault of put is caught and the loop goes on
Put ==
    /\ pc = "walk"
    /\ Top.phase = "iter"
    /\ \E name \in Top.todo :
          /\ ~ ItemExcluded(name)
          /\ ~ IsDir(ItemStr(name))
          /\ \E r \in PutResults :
                ops' = Append(ops, Op("put", RemoteItem(Top.remote_path, name),
                                      ItemStr(name), r))
          /\ stack' = SetTop([Top EXCEPT !.todo = @ \ { name }])
    /\ UNCHANGED <<os_sep, argv, environ, fs, password, pc, client, sftp,
                   exit_code, ex_segs, ex_path, ex_out>>

\* the for loop of line 81 is exhausted: upload_directory returns
Return ==
    /\ pc = "walk"
    /\ Top.phase = "iter"
    /\ Top.todo = {}
    /\ stack' = SubSeq(stack, 1, Len(stack) - 1)
    /\ pc' = IF Len(stack) = 1 THEN "docker" ELSE "walk"
    /\ UNCHANGED <<os_sep, argv, environ, fs, password, ops, client, sftp,
                   exit_code, ex_segs, ex_path, ex_out>>

\* line 133; lines 135-138 only print
Docker == ExecCommand("docker", docker_cmd, "verify")

\* line 145
Verify == ExecCommand("verify", status_cmd, "close")

\* lines 148-149, and the return from main: exit status 0
CloseConnections ==
    /\ pc = "close"
    /\ ops' = ops \o << Op("sftp.close", "", "", "ok"),
                        Op("client.close", "", "", "ok") >>
    /\ sftp' = "closed"
    /\ client' = "closed"
    /\ Exit(0)
    /\ UNCHANGED <<os_sep, argv, environ, fs, password,
                   ex_segs, ex_path, ex_out>>

Next ==
    \/ GetPassword
    \/ Connect
    \/ OpenSftp
    \/ MkdirBase
    \/ CallUpload
    \/ Stat
    \/ Mkdir
    \/ Iterdir
    \/ Skip
    \/ Descend
    \/ Put
    \/ Return
    \/ Docker
    \/ Verify
    \/ CloseConnections

Spec == Init /\ [][Next]_vars

(***************************************************************************)
(* upload_directory alone, on larger trees: the state of main at line 122, *)
(* session open and base directory command done, for every local tree.     *)
(***************************************************************************)
InitWalk ==
    /\ os_sep \in Separators
    /\ argv = << "deploy_helper.py", "secret" >>
    /\ environ = << >>
    /\ fs \in Trees(os_sep, MaxNodes)
    /\ pc = "upload"
    /\ password = "secret"
    /\ stack = << >>
    /\ ops = << Op("connect", "secret", "", "ok"),
                Op("open_sftp", "", "", "ok"),
                Op("exec_command", mkdir_cmd, "", "0") >>
    /\ client = "open"
    /\ sftp = "open"
    /\ exit_code = 0
    /\ ex_segs = << >>
    /\ ex_path = ""
    /\ ex_out = "none"

NextWalk ==
    \/ CallUpload
    \/ Stat
    \/ Mkdir
    \/ Iterdir
    \/ Skip
    \/ Descend
    \/ Put
    \/ Return

SpecWalk == InitWalk /\ [][NextWalk]_vars


(***************************************************************************)
(* C1: for every root-relative path p, should_exclude returns true if and  *)
(* only if some literal rule (one that is not of the form '*s') equals a   *)
(* path segment of p, or some wildcard rule '*s' is such that p ends with  *)
(* s.                                                                      *)
(***************************************************************************)
IsWildcard(rule) == StartsWith(rule, "*")

ClaimedExcluded(segs, p) ==
    \/ \E i \in 1..Len(EXCLUDE_PATTERNS) :
          /\ ~ IsWildcard(EXCLUDE_PATTERNS[i])
          /\ \E j \in 1..Len(segs) : segs[j] = EXCLUDE_PATTERNS[i]
    \/ \E i \in 1..Len(EXCLUDE_PATTERNS) :
          /\ IsWildcard(EXCLUDE_PATTERNS[i])
          /\ EndsWith(p, SubSeq(EXCLUDE_PATTERNS[i], 2,
                                Len(EXCLUDE_PATTERNS[i])))

C1_ExcludeIffRuleMatches ==
    pc = "exclude_done" =>
        (ex_out = "True" <=> ClaimedExcluded(ex_segs, Join(ex_segs, os_sep)))

(***************************************************************************)
(* Vocabulary of the claims about the walk and about main.                 *)
(***************************************************************************)
OpIdx == 1..Len(ops)

NetworkOps == { "connect", "open_sftp", "exec_command", "stat", "mkdir",
                "put", "sftp.close", "client.close" }

\* the names, from the root down, of the entry whose str() is local_item
NodeSegs(local_item) ==
    (CHOOSE n \in fs : LocalStr(n.segs, os_sep) = local_item).segs

\* the remote path that mirrors a node of the local tree
RemoteOf(segs) == SERVER_PATH \o "/" \o Join(segs, "/")

Excluded(segs) == should_exclude(LocalStr(segs, os_sep), project_path, os_sep)

\* a file such that neither it nor any of its ancestors below the root is
\* excluded
Eligible(n) ==
    /\ ~ n.dir
    /\ \A k \in 1..Len(n.segs) : ~ Excluded(SubSeq(n.segs, 1, k))

\* upload_directory(sftp, project_path, SERVER_PATH) has returned to main
WalkReturned ==
    \/ pc \in { "docker", "verify", "close" }
    \/ \E i \in OpIdx : ops[i].op = "exec_command" /\ ops[i].arg = docker_cmd

\* a fault that is not caught where it is raised
Raised(o) ==
    /\ o.op # "put"
    /\ o.res \notin { "ok", "0", "1", "FileNotFoundError" }

(***************************************************************************)
(* C2: once a directory entry is excluded (the walk skipped it), no        *)
(* operation is ever performed on it or on anything below it: it is never  *)
(* listed, no stat or mkdir is issued for its remote path or a path below  *)
(* it, and no file of its subtree is uploaded, even when a descendant's    *)
(* own root-relative path matches no rule.                                 *)
(***************************************************************************)
C2_ExcludedSubtreeUntouched ==
    \A i \in OpIdx :
        (ops[i].op = "skip" /\ IsDir(ops[i].src)) =>
            LET d == NodeSegs(ops[i].src)
                below == { n \in fs : /\ Len(n.segs) >= Len(d)
                                      /\ SubSeq(n.segs, 1, Len(d)) = d }
                locals == { LocalStr(n.segs, os_sep) : n \in below }
                remotes == { RemoteOf(n.segs) : n \in below }
            IN  \A j \in OpIdx :
                   /\ ops[j].op = "iterdir" => ops[j].arg \notin locals
                   /\ ops[j].op \in { "stat", "mkdir" } =>
                          ops[j].arg \notin remotes
                   /\ ops[j].op = "put" =>
                          /\ ops[j].src \notin locals
                          /\ ops[j].arg \notin remotes

\* the walk is over, it skipped a directory that holds a file whose own
\* path matches no rule, and it uploaded a file elsewhere
C2_Witness ==
    /\ pc = "docker"
    /\ \E i \in OpIdx, n \in fs :
          /\ ops[i].op = "skip" /\ IsDir(ops[i].src)
          /\ Parent(n.segs) = NodeSegs(ops[i].src)
          /\ ~ n.dir /\ ~ Excluded(n.segs)
    /\ \E i \in OpIdx : ops[i].op = "put"

(***************************************************************************)
(* C3: a fault of one sftp.put does not abort the walk and does not reach  *)
(* the caller: after it the walk goes on or returns normally to main, and   *)
(* once the walk has returned every file that is not excluded              *)
(* (itself or through an ancestor) has been attempted, whatever puts       *)
(* failed before it.                                                       *)
(***************************************************************************)
C3_PutFaultDoesNotAbort ==
    /\ (ops # << >> /\ ops[Len(ops)].op = "put"
            /\ ops[Len(ops)].res = "IOError") =>
           pc \in { "walk", "docker" }
    /\ (WalkReturned /\ \E i \in OpIdx :
            ops[i].op = "put" /\ ops[i].res = "IOError") =>
           \A n \in fs : Eligible(n) =>
               LET local == LocalStr(n.segs, os_sep)
               IN  \E j \in OpIdx : ops[j].op = "put" /\ ops[j].src = local

\* a put failed, and later a sibling in the same directory was uploaded
C3_Witness ==
    /\ WalkReturned
    /\ \E i \in OpIdx, j \in OpIdx, m \in fs, n \in fs :
          /\ i < j
          /\ ops[i].op = "put" /\ ops[i].res = "IOError"
          /\ ops[j].op = "put" /\ ops[j].res = "ok"
          /\ ops[i].src = LocalStr(m.segs, os_sep)
          /\ ops[j].src = LocalStr(n.segs, os_sep)
          /\ Parent(m.segs) = Parent(n.segs)

(***************************************************************************)
(* C4: with no command-line argument and no SSH_PASSWORD variable, main    *)
(* ends with exit status 1 and has made no network call: no connect, no    *)
(* SFTP open, no remote command, no stat, mkdir or put.                    *)
(***************************************************************************)
NoCredential == Len(argv) = 1 /\ environ = << >>

C4_NoCredentialNoNetwork ==
    (NoCredential /\ pc # "start") =>
        /\ pc = "exited"
        /\ exit_code = 1
        /\ \A i \in OpIdx : ops[i].op \notin NetworkOps
        /\ client = "none"
        /\ sftp = "none"

\* main has run with neither source of the password and has ended
C4_Witness == NoCredential /\ pc = "exited" /\ exit_code = 1 /\ ops = << >>

(***************************************************************************)
(* C5: the destination of every put is the remote root, then "/", then the *)
(* segments of the file's path relative to the local root joined with "/", *)
(* at every depth; a local separator other than "/" never occurs in it.    *)
(***************************************************************************)
C5_RemotePathIsSlashJoined ==
    \A i \in OpIdx :
        ops[i].op = "put" =>
            /\ \E n \in fs :
                  /\ ~ n.dir
                  /\ ops[i].src = LocalStr(n.segs, os_sep)
                  /\ ops[i].arg = SERVER_PATH \o "/" \o Join(n.segs, "/")
            /\ os_sep # "/" => ~ Contains(ops[i].arg, os_sep)

\* a file two directories below the root is uploaded where os.sep is "\"
C5_Witness ==
    /\ os_sep = "\\"
    /\ \E i \in OpIdx, n \in fs :
          /\ ops[i].op = "put"
          /\ Len(n.segs) = 3
          /\ ops[i].src = LocalStr(n.segs, os_sep)

(***************************************************************************)
(* C6: mkdir is called for a remote path only immediately after the stat   *)
(* of that same path reported "not found"; a path whose stat succeeded is  *)
(* never created; no path receives two mkdir calls in one run.             *)
(***************************************************************************)
C6_MkdirOnlyAfterNotFound ==
    LET made == { i \in OpIdx : ops[i].op = "mkdir" }
        found == { ops[i].arg : i \in { k \in OpIdx : ops[k].op = "stat"
                                                      /\ ops[k].res = "ok" } }
    IN  /\ \A i \in made :
              /\ i > 1
              /\ ops[i - 1].op = "stat"
              /\ ops[i - 1].arg = ops[i].arg
              /\ ops[i - 1].res = "FileNotFoundError"
        /\ \A i \in made : ops[i].arg \notin found
        /\ \A i \in made, j \in made : i # j => ops[j].arg # ops[i].arg

\* one directory existed and was left alone, two others were created
C6_Witness ==
    /\ WalkReturned
    /\ \E i \in OpIdx : ops[i].op = "stat" /\ ops[i].res = "ok"
    /\ \E i \in OpIdx, j \in OpIdx :
          i # j /\ ops[i].op = "mkdir" /\ ops[j].op = "mkdir"

(***************************************************************************)
(* C7: in a walk that meets no stat or mkdir fault, the files for which an *)
(* upload is attempted are exactly the files under the local root such     *)
(* that neither the file nor any of its ancestor directories below the     *)
(* root is excluded, each attempted exactly once, and the walk terminates: *)
(* every step of the walk lowers a natural-number bound on the steps left. *)
(***************************************************************************)
PutIdx == { i \in OpIdx : ops[i].op = "put" }

C7_AttemptedInv ==
    /\ \A i \in PutIdx, j \in PutIdx : i # j => ops[i].src # ops[j].src
    /\ WalkReturned =>
           { ops[i].src : i \in PutIdx } =
               { LocalStr(n.segs, os_sep) : n \in { m \in fs : Eligible(m) } }

\* A bound on the steps the walk still has to take: five for every entry
\* of the tree that no loop has taken yet (for a directory its descent,
\* stat, mkdir, listing and return), plus what the active calls have left
\* before and at their return.
PhaseSteps(phase) ==
    CASE phase = "stat" -> 4
      [] phase = "mkdir" -> 3
      [] phase = "list" -> 2
      [] phase = "iter" -> 1

RECURSIVE StackSteps(_)
StackSteps(st) ==
    IF st = << >> THEN 0 ELSE PhaseSteps(Head(st).phase) + StackSteps(Tail(st))

\* calls of upload_directory made so far: each one probes once, at once
CallsMade ==
    Cardinality({ i \in OpIdx : ops[i].op = "stat" })
        + (IF stack # << >> /\ Top.phase = "stat" THEN 1 ELSE 0)

\* entries a loop has taken: skipped, uploaded or descended into
EntriesTaken ==
    Cardinality({ i \in OpIdx : ops[i].op \in { "skip", "put" } })
        + (IF CallsMade > 0 THEN CallsMade - 1 ELSE 0)

WalkVariant == 5 * (Cardinality(fs) - EntriesTaken) + StackSteps(stack)

C7_AttemptedExactlyEligible ==
    /\ [] C7_AttemptedInv
    /\ [] (WalkVariant >= 0)
    /\ [][pc = "walk" => WalkVariant' < WalkVariant]_vars

\* the walk returned after uploading a file in a directory below the root
\* and after skipping an excluded file
C7_Witness ==
    /\ pc = "docker"
    /\ \E i \in PutIdx : Len(NodeSegs(ops[i].src)) = 2
    /\ \E i \in OpIdx : ops[i].op = "skip" /\ ~ IsDir(ops[i].src)

(***************************************************************************)
(* C8: a non-zero exit status of the build/deploy command does not abort   *)
(* the run: the status listing command is the next call made, and a run    *)
(* in which no later call raises a fault then closes the session and ends  *)
(* with exit status 0; likewise for the base directory command, after      *)
(* which the upload, the build/deploy and the status commands still run.   *)
(***************************************************************************)
NonZero(i, command) ==
    /\ ops[i].op = "exec_command"
    /\ ops[i].arg = command
    /\ ops[i].res = "1"

NoFaultRaised == \A i \in OpIdx : ~ Raised(ops[i])

\* the run ended with the status command, then the two close calls
EndedInOrder ==
    /\ Len(ops) >= 3
    /\ ops[Len(ops) - 2].op = "exec_command"
    /\ ops[Len(ops) - 2].arg = status_cmd
    /\ ops[Len(ops) - 1].op = "sftp.close"
    /\ ops[Len(ops)].op = "client.close"
    /\ \E i \in OpIdx : ops[i].op = "exec_command" /\ ops[i].arg = docker_cmd

C8_NonZeroStatusDoesNotAbort ==
    \A i \in OpIdx :
        (NonZero(i, docker_cmd) \/ NonZero(i, mkdir_cmd)) =>
            /\ i = Len(ops) =>
                   IF ops[i].arg = docker_cmd
                   THEN pc = "verify"
                   ELSE pc \in { "upload", "walk" }
            /\ (NonZero(i, docker_cmd) /\ i < Len(ops)) =>
                   /\ ops[i + 1].op = "exec_command"
                   /\ ops[i + 1].arg = status_cmd
            /\ (pc = "exited" /\ NoFaultRaised) =>
                   /\ exit_code = 0
                   /\ client = "closed"
                   /\ sftp = "closed"
                   /\ EndedInOrder

\* both commands returned non-zero and the run ended with status 0
C8_Witness ==
    /\ pc = "exited"
    /\ exit_code = 0
    /\ \E i \in OpIdx : NonZero(i, docker_cmd)
    /\ \E i \in OpIdx : NonZero(i, mkdir_cmd)
    /\ \E i \in OpIdx : ops[i].op = "put"

(***************************************************************************)
(* C9: once the session has been opened, close has been called on it       *)
(* before the process exits, on the success path and on every failure      *)
(* path.                                                                   *)
(***************************************************************************)
SessionOpened ==
    \E i \in OpIdx : ops[i].op = "connect" /\ ops[i].res = "ok"

C9_ClosedBeforeExit ==
    (pc = "exited" /\ SessionOpened) => client = "closed"

(***************************************************************************)
(* C10: a fault of the existence probe other than "not found", or a fault  *)
(* of mkdir, stops the walk there: it is the last call of the run, neither *)
(* the build/deploy nor the status command is run, and the exit status is  *)
(* 1.                                                                      *)
(***************************************************************************)
ProbeFault(i) ==
    /\ ops[i].op \in { "stat", "mkdir" }
    /\ ops[i].res = "IOError"

C10_ProbeFaultStopsRun ==
    \A i \in OpIdx :
        ProbeFault(i) =>
            /\ i = Len(ops)
            /\ pc = "exited"
            /\ exit_code = 1
            /\ stack = << >>
            /\ \A j \in OpIdx : ops[j].op = "exec_command" =>
                                   ops[j].arg = mkdir_cmd

\* the probe of a directory below the root failed after a file was uploaded
C10_Witness ==
    /\ pc = "exited"
    /\ \E i \in OpIdx :
          /\ ProbeFault(i)
          /\ ops[i].op = "stat"
          /\ ops[i].arg # SERVER_PATH
    /\ \E i \in OpIdx : ops[i].op = "put"

====
